---- MODULE Spec2Model ----
(***************************************************************************)
(* Model of dashboard_utility.py: one run of the script for one uploaded   *)
(* spreadsheet.  The script is linear; `pc` is its position.  Cells of the *)
(* data frame are tagged values (number, text, boolean, missing, datetime) *)
(* so that pandas' conversions are computed, not assumed.                  *)
(*                                                                         *)
(* Days are counted from 1899-12-30 (the Excel serial scale), so that      *)
(* Timestamp('1899-12-30') + v days is the datetime of day v.  Datetimes   *)
(* are kept at day resolution; numbers are integers.                       *)
(***************************************************************************)
EXTENDS Integers, Sequences, FiniteSets, TLC

VARIABLES pc, file, df, preview, out, exc,
          total_sales, avg_sales, transactions, sales_trend, category_sales

vars == <<pc, file, df, preview, out, exc,
          total_sales, avg_sales, transactions, sales_trend, category_sales>>

-----------------------------------------------------------------------------
(* Bounds of the model *)

MaxRows == 2

-----------------------------------------------------------------------------
(* Configured column names *)

DATE_COLUMN == "Order_Date"
SALES_COLUMN == "Sales_Amount"
CATEGORY_COLUMN == "Product_Category"
CORRECTED == "Corrected_Date"

ConfiguredColumns == {DATE_COLUMN, SALES_COLUMN, CATEGORY_COLUMN}

-----------------------------------------------------------------------------
(* Cell values *)

Num(n)  == [k |-> "num",  n |-> n, s |-> ""]
Bool(b) == [k |-> "bool", n |-> b, s |-> ""]
Text(t) == [k |-> "text", n |-> 0, s |-> t]
Date(d) == [k |-> "date", n |-> d, s |-> ""]
NaN     == [k |-> "nan",  n |-> 0, s |-> ""]
None    == [k |-> "none", n |-> 0, s |-> ""]
NaT     == [k |-> "nat",  n |-> 0, s |-> ""]
Absent  == [k |-> "absent", n |-> 0, s |-> ""]
Raised  == [k |-> "raised", n |-> 0, s |-> "TypeError"]

\* pd.isna on a scalar
IsNa(v) == v.k \in {"nan", "none", "nat"}

-----------------------------------------------------------------------------
(* excel_serial_to_date *)

SerialLow == 1000
SerialHigh == 90000

\* `serial_number > bound`: numbers and booleans compare, text and datetimes
\* raise TypeError.
Greater(v, bound) ==
    IF v.k \in {"num", "bool"} THEN (IF v.n > bound THEN "true" ELSE "false")
    ELSE "raise"

Less(v, bound) ==
    IF v.k \in {"num", "bool"} THEN (IF v.n < bound THEN "true" ELSE "false")
    ELSE "raise"

\* body of the inner try block
SerialTryBody(v) ==
    LET gt == Greater(v, SerialLow) IN
    IF gt = "raise" THEN Raised
    ELSE IF gt = "false" THEN v
    ELSE LET lt == Less(v, SerialHigh) IN
         IF lt = "raise" THEN Raised
         ELSE IF lt = "true" THEN Date(v.n)
         ELSE v

\* variant: the function without its inner try/except
excel_serial_to_date_nocatch(v) ==
    IF IsNa(v) THEN None ELSE SerialTryBody(v)

\* variant: the range test with inclusive limits
excel_serial_to_date_inclusive(v) ==
    IF IsNa(v) THEN None
    ELSE IF v.k = "num" /\ v.n >= SerialLow /\ v.n <= SerialHigh THEN Date(v.n)
    ELSE v

excel_serial_to_date(v) ==
    IF IsNa(v) THEN None
    ELSE LET r == SerialTryBody(v) IN
         IF r = Raised THEN v ELSE r

-----------------------------------------------------------------------------
(* Calendar: days on the serial scale <-> civil dates (proleptic Gregorian) *)

\* 1970-01-01 on the serial scale: Timestamp(0) - Timestamp('1899-12-30')
UnixEpochDay == 25569

\* days between 0000-03-01 and 1970-01-01
CivilShift == 719468

DaysPerEra == 146097

DaysFromCivil(y0, m, d) ==
    LET y   == IF m <= 2 THEN y0 - 1 ELSE y0
        era == y \div 400
        yoe == y - era * 400
        mp  == IF m > 2 THEN m - 3 ELSE m + 9
        doy == (153 * mp + 2) \div 5 + d - 1
        doe == yoe * 365 + yoe \div 4 - yoe \div 100 + doy
    IN  era * DaysPerEra + doe - CivilShift + UnixEpochDay

\* <<year, month>> of a day on the serial scale
CivilOf(day) ==
    LET z   == day - UnixEpochDay + CivilShift
        era == z \div DaysPerEra
        doe == z - era * DaysPerEra
        yoe == (doe - doe \div 1460 + doe \div 36524 - doe \div 146096) \div 365
        doy == doe - (365 * yoe + yoe \div 4 - yoe \div 100)
        mp  == (5 * doy + 2) \div 153
        m   == IF mp < 10 THEN mp + 3 ELSE mp - 9
        y   == yoe + era * 400 + (IF m <= 2 THEN 1 ELSE 0)
    IN  <<y, m>>

\* the monthly bin of resample('M'), as a month count year*12 + (month-1)
MonthOf(day) == LET ym == CivilOf(day) IN ym[1] * 12 + (ym[2] - 1)

-----------------------------------------------------------------------------
(* pd.to_datetime(..., errors='coerce') *)

\* texts that can stand in a cell, with the civil date each parses to
\* (<<>> when the parser rejects the text)
TextDates ==
    [t \in {"bad", "2014-05-15"} |->
        IF t = "2014-05-15" THEN <<2014, 5, 15>> ELSE <<>>]

ParseText(t) ==
    IF t \in DOMAIN TextDates /\ TextDates[t] # <<>>
    THEN Date(DaysFromCivil(TextDates[t][1], TextDates[t][2], TextDates[t][3]))
    ELSE NaT

\* a number is a count of nanoseconds since 1970-01-01 (unit defaults to ns)
NsToDays(n) == (n \div 1000000000) \div 86400

to_datetime(v) ==
    IF v.k = "date" THEN v
    ELSE IF v.k = "num" THEN Date(UnixEpochDay + NsToDays(v.n))
    ELSE IF v.k = "text" THEN ParseText(v.s)
    ELSE NaT

-----------------------------------------------------------------------------
(* Sequences *)

\* Series.sum(): missing values are skipped, the empty sum is 0
RECURSIVE SumAmounts(_)
SumAmounts(rows) ==
    IF rows = <<>> THEN 0
    ELSE (IF Head(rows)[SALES_COLUMN].k = "num" THEN Head(rows)[SALES_COLUMN].n ELSE 0)
         + SumAmounts(Tail(rows))

\* number of non-missing amounts
RECURSIVE CountAmounts(_)
CountAmounts(rows) ==
    IF rows = <<>> THEN 0
    ELSE (IF Head(rows)[SALES_COLUMN].k = "num" THEN 1 ELSE 0)
         + CountAmounts(Tail(rows))

\* Series.mean(): sum / count of the non-missing values, NaN when there is none
Mean(rows) ==
    IF CountAmounts(rows) = 0 THEN [k |-> "nan", num |-> 0, den |-> 1]
    ELSE [k |-> "mean", num |-> SumAmounts(rows), den |-> CountAmounts(rows)]

\* DataFrame.head(n)
HeadRows == 5

head(rows) == SubSeq(rows, 1, IF Len(rows) < HeadRows THEN Len(rows) ELSE HeadRows)

-----------------------------------------------------------------------------
(* groupby(CATEGORY_COLUMN)[SALES_COLUMN].sum().reset_index() *)

\* the category labels of the model, in the order groupby sorts its keys
CategoryOrder == <<"A", "B">>

InCategory(rows, c) == SelectSeq(rows, LAMBDA r : r[CATEGORY_COLUMN] = Text(c))

\* the keys that occur, in key order (rows with a missing key are in no group)
GroupKeys(rows) ==
    SelectSeq(CategoryOrder,
              LAMBDA c : \E i \in 1..Len(rows) : rows[i][CATEGORY_COLUMN] = Text(c))

groupby_sum(rows) ==
    LET keys == GroupKeys(rows) IN
    [i \in 1..Len(keys) |->
        [category |-> keys[i], total |-> SumAmounts(InCategory(rows, keys[i]))]]

(* sort_values(by=SALES_COLUMN, ascending=False): kind defaults to           *)
(* 'quicksort', which is not a stable sort, so rows with equal totals come  *)
(* out in any order.  The set of the orders the call can return.            *)
Orders(n) ==
    {p \in [1..n -> 1..n] : \A i, j \in 1..n : i # j => p[i] # p[j]}

\* variant: ascending=True
sort_values_ascending(groups) ==
    {s \in {[i \in 1..Len(groups) |-> groups[p[i]]] : p \in Orders(Len(groups))} :
        \A i \in 1..Len(s) - 1 : s[i].total <= s[i + 1].total}

sort_values(groups) ==
    {s \in {[i \in 1..Len(groups) |-> groups[p[i]]] : p \in Orders(Len(groups))} :
        \A i \in 1..Len(s) - 1 : s[i].total >= s[i + 1].total}

-----------------------------------------------------------------------------
(* set_index(DATE_COLUMN)[SALES_COLUMN].resample('M').sum().reset_index() *)

\* the monthly bin of every row
RowMonths(rows) == [i \in 1..Len(rows) |-> MonthOf(rows[i][DATE_COLUMN].n)]

\* the rows whose bin is m, given the bins ms of the rows
InMonth(rows, ms, m) ==
    LET ix == SelectSeq([i \in 1..Len(rows) |-> i], LAMBDA i : ms[i] = m)
    IN  [j \in 1..Len(ix) |-> rows[ix[j]]]

MinOf(S) == CHOOSE x \in S : \A y \in S : x <= y
MaxOf(S) == CHOOSE x \in S : \A y \in S : x >= y

\* variant: the first amount of each month instead of the sum
resample_sum_first(rows) ==
    IF rows = <<>> THEN <<>>
    ELSE LET ms == RowMonths(rows)
             lo == MinOf({ms[i] : i \in 1..Len(rows)})
             hi == MaxOf({ms[i] : i \in 1..Len(rows)})
         IN  [i \in 1..(hi - lo + 1) |->
                [month |-> lo + i - 1,
                 total |-> IF InMonth(rows, ms, lo + i - 1) = <<>> THEN 0
                           ELSE SumAmounts(<<Head(InMonth(rows, ms, lo + i - 1))>>)]]

\* one bin per calendar month from the first to the last month of the data,
\* the months without rows included, each with the sum of its rows
resample_sum(rows) ==
    IF rows = <<>> THEN <<>>
    ELSE LET ms == RowMonths(rows)
             lo == MinOf({ms[i] : i \in 1..Len(rows)})
             hi == MaxOf({ms[i] : i \in 1..Len(rows)})
         IN  [i \in 1..(hi - lo + 1) |->
                [month |-> lo + i - 1, total |-> SumAmounts(InMonth(rows, ms, lo + i - 1))]]

-----------------------------------------------------------------------------
(* The uploaded files *)

\* date cells of the runs that exercise the aggregations
DateCells == {Num(41760), Num(41791), Num(41852), Text("bad")}

\* date cells of the runs that exercise the normalization
SerialCells ==
    {Num(n) : n \in {-7, 1000, 1001, 41760, 89999, 90000}}
    \cup {Bool(1), NaN, NaT, Text("bad"), Text("2014-05-15"), Date(41800)}

\* amounts are numbers or empty cells
AmountCells == {NaN, Num(100), Num(200)}

CategoryCells == {NaN} \cup {Text(CategoryOrder[i]) : i \in 1..Len(CategoryOrder)}

CellsOf(cols, c, cells) == IF c \in cols THEN cells ELSE {Absent}

\* the values a row can have in a sheet with the columns `cols`
RowValues(cols, dates, amounts, categories) ==
    [Order_Date : CellsOf(cols, DATE_COLUMN, dates),
     Sales_Amount : CellsOf(cols, SALES_COLUMN, amounts),
     Product_Category : CellsOf(cols, CATEGORY_COLUMN, categories)]

\* the sheet with the columns `cols` and the rows `v`; the index is 0..n-1
Sheet(cols, v) ==
    [readable |-> TRUE, columns |-> cols,
     rows |-> [i \in 1..Len(v) |->
                 [idx |-> i - 1,
                  Order_Date |-> v[i].Order_Date,
                  Sales_Amount |-> v[i].Sales_Amount,
                  Product_Category |-> v[i].Product_Category,
                  Corrected_Date |-> Absent]]]

Malformed == [readable |-> FALSE, columns |-> {}, rows |-> <<>>]

Unbound == [k |-> "unbound", n |-> 0, s |-> ""]
UnboundMean == [k |-> "unbound", num |-> 0, den |-> 1]

-----------------------------------------------------------------------------
(* The run *)

TypeOK ==
    /\ pc \in {"read_excel", "preview", "normalize", "apply", "drop_rename",
               "to_datetime", "dropna", "header", "sales", "trend", "bar", "pie",
               "except", "done"}
    /\ exc \in {"none", "read_excel", "TypeError", "KeyError"}
    /\ file.columns \subseteq ConfiguredColumns
    /\ df.columns \subseteq ConfiguredColumns \cup {CORRECTED}
    /\ Len(df.rows) <= Len(file.rows)

InitWith(dates, amounts, categories) ==
    /\ pc = "read_excel"
    /\ \/ file = Malformed
       \/ \E cols \in SUBSET ConfiguredColumns, n \in 0..MaxRows :
            \E v \in [1..n -> RowValues(cols, dates, amounts, categories)] :
                file = Sheet(cols, v)
    /\ df = [columns |-> {}, rows |-> <<>>]
    /\ preview = <<>>
    /\ out = <<>>
    /\ exc = "none"
    /\ total_sales = Unbound
    /\ avg_sales = UnboundMean
    /\ transactions = Unbound
    /\ sales_trend = <<>>
    /\ category_sales = <<>>

Init == InitWith(DateCells, AmountCells, CategoryCells)

InitDates == InitWith(SerialCells, {Num(100)}, {Text("A")})

\* an exception leaves the try block for the handler at the end of the script
Raise(e) ==
    /\ pc' = "except"
    /\ exc' = e

\* variant: a failed read goes on with the pipeline
ReadExcelSwallow ==
    /\ pc = "read_excel"
    /\ df' = [columns |-> file.columns, rows |-> file.rows]
    /\ out' = Append(out, "success")
    /\ pc' = "preview"
    /\ exc' = IF file.readable THEN exc ELSE "read_excel"
    /\ UNCHANGED <<file, preview, total_sales, avg_sales, transactions,
                   sales_trend, category_sales>>

\* df = pd.read_excel(uploaded_file); st.success(...)
ReadExcel ==
    /\ pc = "read_excel"
    /\ IF file.readable
       THEN /\ df' = [columns |-> file.columns, rows |-> file.rows]
            /\ out' = Append(out, "success")
            /\ pc' = "preview"
            /\ UNCHANGED exc
       ELSE /\ Raise("read_excel")
            /\ UNCHANGED <<df, out>>
    /\ UNCHANGED <<file, preview, total_sales, avg_sales, transactions,
                   sales_trend, category_sales>>

\* st.subheader("Raw Data Preview"); st.dataframe(df.head())
Preview ==
    /\ pc = "preview"
    /\ preview' = head(df.rows)
    /\ out' = Append(out, "preview")
    /\ pc' = "normalize"
    /\ UNCHANGED <<file, df, exc, total_sales, avg_sales, transactions,
                   sales_trend, category_sales>>

\* if DATE_COLUMN in df.columns: st.info(...)
CheckDateColumn ==
    /\ pc = "normalize"
    /\ IF DATE_COLUMN \in df.columns
       THEN /\ out' = Append(out, "info_date")
            /\ pc' = "apply"
       ELSE /\ pc' = "header"
            /\ UNCHANGED out
    /\ UNCHANGED <<file, df, preview, exc, total_sales, avg_sales, transactions,
                   sales_trend, category_sales>>

\* df['Corrected_Date'] = df[DATE_COLUMN].apply(excel_serial_to_date)
Apply ==
    /\ pc = "apply"
    /\ LET res == [i \in 1..Len(df.rows) |-> excel_serial_to_date(df.rows[i][DATE_COLUMN])]
       IN  IF \E i \in 1..Len(res) : res[i] = Raised
           THEN /\ Raise("TypeError")
                /\ UNCHANGED df
           ELSE /\ df' = [columns |-> df.columns \cup {CORRECTED},
                          rows |-> [i \in 1..Len(df.rows) |->
                                      [df.rows[i] EXCEPT !.Corrected_Date = res[i]]]]
                /\ pc' = "drop_rename"
                /\ UNCHANGED exc
    /\ UNCHANGED <<file, preview, out, total_sales, avg_sales, transactions,
                   sales_trend, category_sales>>

\* df.drop(columns=[DATE_COLUMN]); df.rename(columns={'Corrected_Date': DATE_COLUMN})
DropRename ==
    /\ pc = "drop_rename"
    /\ df' = [columns |-> (df.columns \ {DATE_COLUMN, CORRECTED}) \cup {DATE_COLUMN},
              rows |-> [i \in 1..Len(df.rows) |->
                          [df.rows[i] EXCEPT !.Order_Date = df.rows[i].Corrected_Date,
                                             !.Corrected_Date = Absent]]]
    /\ pc' = "to_datetime"
    /\ UNCHANGED <<file, preview, out, exc, total_sales, avg_sales, transactions,
                   sales_trend, category_sales>>

\* df[DATE_COLUMN] = pd.to_datetime(df[DATE_COLUMN], errors='coerce')
ToDatetime ==
    /\ pc = "to_datetime"
    /\ df' = [df EXCEPT !.rows = [i \in 1..Len(df.rows) |->
                          [df.rows[i] EXCEPT !.Order_Date = to_datetime(df.rows[i].Order_Date)]]]
    /\ pc' = "dropna"
    /\ UNCHANGED <<file, preview, out, exc, total_sales, avg_sales, transactions,
                   sales_trend, category_sales>>

\* variant: no row is dropped
dropna_keepall(rows) == rows

\* df.dropna(subset=[DATE_COLUMN], inplace=True)
dropna(rows) == SelectSeq(rows, LAMBDA r : ~IsNa(r[DATE_COLUMN]))

DropNa ==
    /\ pc = "dropna"
    /\ df' = [df EXCEPT !.rows = dropna(df.rows)]
    /\ pc' = "header"
    /\ UNCHANGED <<file, preview, out, exc, total_sales, avg_sales, transactions,
                   sales_trend, category_sales>>

\* st.header("Key Performance Indicators (KPIs) & Trends")
Header ==
    /\ pc = "header"
    /\ out' = Append(out, "header")
    /\ pc' = "sales"
    /\ UNCHANGED <<file, df, preview, exc, total_sales, avg_sales, transactions,
                   sales_trend, category_sales>>

\* variant: the transaction count taken from the sheet as read
KpisCountRaw ==
    /\ pc = "sales"
    /\ SALES_COLUMN \in df.columns
    /\ total_sales' = Num(SumAmounts(df.rows))
    /\ avg_sales' = Mean(df.rows)
    /\ transactions' = Num(Len(file.rows))
    /\ out' = out \o <<"metric_total", "metric_average", "metric_transactions">>
    /\ pc' = "trend"
    /\ UNCHANGED <<file, df, preview, exc, sales_trend, category_sales>>

\* if SALES_COLUMN in df.columns: total_sales, avg_sales and the three st.metric
Kpis ==
    /\ pc = "sales"
    /\ SALES_COLUMN \in df.columns
    /\ total_sales' = Num(SumAmounts(df.rows))
    /\ avg_sales' = Mean(df.rows)
    /\ transactions' = Num(Len(df.rows))
    /\ out' = out \o <<"metric_total", "metric_average", "metric_transactions">>
    /\ pc' = "trend"
    /\ UNCHANGED <<file, df, preview, exc, sales_trend, category_sales>>

\* variant: the else branch falls through to the charts
MissingSalesFallThrough ==
    /\ pc = "sales"
    /\ SALES_COLUMN \notin df.columns
    /\ out' = Append(out, "error_column")
    /\ pc' = "trend"
    /\ UNCHANGED <<file, df, preview, exc, total_sales, avg_sales, transactions,
                   sales_trend, category_sales>>

\* else: st.error("Required column 'Sales_Amount' not found. ...")
MissingSales ==
    /\ pc = "sales"
    /\ SALES_COLUMN \notin df.columns
    /\ out' = Append(out, "error_column")
    /\ pc' = "done"
    /\ UNCHANGED <<file, df, preview, exc, total_sales, avg_sales, transactions,
                   sales_trend, category_sales>>

\* resample needs a DatetimeIndex: the column is datetime64 after to_datetime
IsDatetimeColumn(rows) == \A i \in 1..Len(rows) : rows[i][DATE_COLUMN].k = "date"

\* variant: the line chart without the test for the date column
TrendUnguarded ==
    /\ pc = "trend"
    /\ IF DATE_COLUMN \notin df.columns
       THEN /\ Raise("KeyError")
            /\ UNCHANGED <<sales_trend, out>>
       ELSE /\ sales_trend' = resample_sum(df.rows)
            /\ out' = Append(out, "chart_line")
            /\ pc' = "bar"
            /\ UNCHANGED exc
    /\ UNCHANGED <<file, df, preview, total_sales, avg_sales, transactions,
                   category_sales>>

\* Visual 1: if DATE_COLUMN in df.columns: sales_trend, px.line, st.plotly_chart
Trend ==
    /\ pc = "trend"
    /\ IF DATE_COLUMN \in df.columns
       THEN IF IsDatetimeColumn(df.rows)
            THEN /\ sales_trend' = resample_sum(df.rows)
                 /\ out' = Append(out, "chart_line")
                 /\ pc' = "bar"
                 /\ UNCHANGED exc
            ELSE /\ Raise("TypeError")
                 /\ UNCHANGED <<sales_trend, out>>
       ELSE /\ pc' = "bar"
            /\ UNCHANGED <<sales_trend, out, exc>>
    /\ UNCHANGED <<file, df, preview, total_sales, avg_sales, transactions,
                   category_sales>>

\* Visual 2: if CATEGORY_COLUMN in df.columns: category_sales, px.bar, st.plotly_chart
Bar ==
    /\ pc = "bar"
    /\ IF CATEGORY_COLUMN \in df.columns
       THEN /\ category_sales' \in sort_values(groupby_sum(df.rows))
            /\ out' = Append(out, "chart_bar")
       ELSE UNCHANGED <<category_sales, out>>
    /\ pc' = "pie"
    /\ UNCHANGED <<file, df, preview, exc, total_sales, avg_sales, transactions,
                   sales_trend>>

\* Visual 3: if CATEGORY_COLUMN in df.columns: px.pie(category_sales), st.plotly_chart
Pie ==
    /\ pc = "pie"
    /\ IF CATEGORY_COLUMN \in df.columns
       THEN out' = Append(out, "chart_pie")
       ELSE UNCHANGED out
    /\ pc' = "done"
    /\ UNCHANGED <<file, df, preview, exc, total_sales, avg_sales, transactions,
                   sales_trend, category_sales>>

\* except Exception as e: st.error("An error occurred during file processing: ...")
Except ==
    /\ pc = "except"
    /\ out' = Append(out, "error_processing")
    /\ pc' = "done"
    /\ UNCHANGED <<file, df, preview, exc, total_sales, avg_sales, transactions,
                   sales_trend, category_sales>>

Next ==
    \/ ReadExcel
    \/ Preview
    \/ CheckDateColumn
    \/ Apply
    \/ DropRename
    \/ ToDatetime
    \/ DropNa
    \/ Header
    \/ Kpis
    \/ MissingSales
    \/ Trend
    \/ Bar
    \/ Pie
    \/ Except

Spec == Init /\ [][Next]_vars

SpecDates == InitDates /\ [][Next]_vars

-----------------------------------------------------------------------------
(* Properties *)

Range(q) == {q[i] : i \in 1..Len(q)}

Count(q, x) == Cardinality({i \in 1..Len(q) : q[i] = x})

Metrics == {"metric_total", "metric_average", "metric_transactions"}
Charts == {"chart_line", "chart_bar", "chart_pie"}

\* the run is past the normalization block without an exception
PostNormalize == pc \in {"header", "sales", "trend", "bar", "pie", "done"} /\ exc = "none"

\* the index labels of the rows still in df
KeptIdx == {df.rows[j].idx : j \in 1..Len(df.rows)}

\* a cell value that stands for no calendar date: missing, a boolean, or a text
\* that is no date
NoCalendarDate(v) ==
    \/ v.k \in {"nan", "nat", "none", "bool"}
    \/ v.k = "text" /\ TextDates[v.s] = <<>>

(* C1: after the date normalization of a dataset that has Order_Date, every  *)
(* row of the result has a calendar date in the date field, and every input  *)
(* row whose date value stands for no calendar date is absent from the       *)
(* result.                                                                   *)
C1_NormalizedDatesValid ==
    (PostNormalize /\ DATE_COLUMN \in file.columns) =>
        /\ \A j \in 1..Len(df.rows) : df.rows[j][DATE_COLUMN].k = "date"
        /\ \A i \in 1..Len(file.rows) :
              NoCalendarDate(file.rows[i][DATE_COLUMN]) => file.rows[i].idx \notin KeptIdx

C1_Witness ==
    /\ pc = "header"
    /\ DATE_COLUMN \in file.columns
    /\ Len(file.rows) = 2
    /\ file.rows[1][DATE_COLUMN] = Text("bad")
    /\ file.rows[2][DATE_COLUMN] = Num(90000)
    /\ KeptIdx = {1}

(* C2: excel_serial_to_date maps a number v with 1000 < v < 90000 to the     *)
(* date 1899-12-30 + v days, returns a number v <= 1000 or v >= 90000        *)
(* unchanged, and maps a missing value to None.                              *)
C2_SerialReference ==
    pc = "drop_rename" =>
        \A i \in 1..Len(df.rows) :
            LET v == df.rows[i][DATE_COLUMN]
                r == df.rows[i][CORRECTED]
            IN  /\ (v.k = "num" /\ 1000 < v.n /\ v.n < 90000) => r = Date(v.n)
                /\ (v.k = "num" /\ (v.n <= 1000 \/ v.n >= 90000)) => r = v
                /\ v.k = "nan" => r = None

C2_Witness ==
    /\ pc = "drop_rename"
    /\ Len(df.rows) = 2
    /\ df.rows[1][DATE_COLUMN] = Num(1000)
    /\ df.rows[1][CORRECTED] = Num(1000)
    /\ df.rows[2][DATE_COLUMN] = Num(89999)
    /\ df.rows[2][CORRECTED] = Date(89999)

(* C3: no date value makes the run fail: a readable file never reaches the   *)
(* top-level error outcome, and after the normalization every input row is   *)
(* either kept with a date or dropped.                                       *)
C3_DateNeverFails ==
    file.readable =>
        /\ exc = "none"
        /\ pc # "except"
        /\ "error_processing" \notin Range(out)
        /\ (PostNormalize /\ DATE_COLUMN \in file.columns) =>
              \A i \in 1..Len(file.rows) :
                  \/ file.rows[i].idx \notin KeptIdx
                  \/ \E j \in 1..Len(df.rows) :
                        /\ df.rows[j].idx = file.rows[i].idx
                        /\ df.rows[j][DATE_COLUMN].k = "date"

C3_Witness ==
    /\ pc = "done"
    /\ file.readable
    /\ ConfiguredColumns \subseteq file.columns
    /\ Len(file.rows) = 2
    /\ file.rows[1][DATE_COLUMN] = Text("2014-05-15")
    /\ file.rows[2][DATE_COLUMN] = Bool(1)
    /\ KeptIdx = {0}

\* the run is past the bar chart of a dataset with the amount and category columns
BarDone ==
    /\ pc \in {"pie", "done"}
    /\ exc = "none"
    /\ {SALES_COLUMN, CATEGORY_COLUMN} \subseteq df.columns

RECURSIVE SumTotals(_)
SumTotals(q) == IF q = <<>> THEN 0 ELSE Head(q).total + SumTotals(Tail(q))

(* C4: the per-category totals of categoryTotals add up to the global sum   *)
(* of the amount field (the Total Sales KPI), also when rows have a missing  *)
(* category or a missing amount.                                             *)
C4_CategoryTotalsAddUp ==
    BarDone => SumTotals(category_sales) = total_sales.n

\* the category labels that occur in df
CategoriesOf(rows) ==
    {rows[i][CATEGORY_COLUMN].s : i \in {j \in 1..Len(rows) : rows[j][CATEGORY_COLUMN].k = "text"}}

\* position of a label in the order groupby hands to the sort
KeyRank(c) == CHOOSE i \in 1..Len(CategoryOrder) : CategoryOrder[i] = c

OnePairPerCategory ==
    /\ {category_sales[i].category : i \in 1..Len(category_sales)} = CategoriesOf(df.rows)
    /\ Len(category_sales) = Cardinality(CategoriesOf(df.rows))

DescendingTotals ==
    \A i \in 1..Len(category_sales) - 1 :
        category_sales[i].total >= category_sales[i + 1].total

(* C5 as stated: one pair per distinct category value, totals descending,    *)
(* and categories with equal totals in their original category order.       *)
C5_StableDescending ==
    BarDone =>
        /\ OnePairPerCategory
        /\ DescendingTotals
        /\ \A i, j \in 1..Len(category_sales) :
              (i < j /\ category_sales[i].total = category_sales[j].total)
                  => KeyRank(category_sales[i].category) < KeyRank(category_sales[j].category)

(* C5 amended: categoryTotals returns exactly one pair per distinct          *)
(* non-missing category value, ordered by total descending; the order of    *)
(* categories with equal totals is not determined.                           *)
C5_DescendingOnePerCategory ==
    BarDone => (OnePairPerCategory /\ DescendingTotals)

C5_Witness ==
    /\ BarDone
    /\ Len(category_sales) = 2
    /\ category_sales[1] = [category |-> "B", total |-> 200]
    /\ category_sales[2] = [category |-> "A", total |-> 100]

\* the run is past the line chart of a dataset with the date and amount columns
TrendDone ==
    /\ pc \in {"bar", "pie", "done"}
    /\ exc = "none"
    /\ {SALES_COLUMN, DATE_COLUMN} \subseteq df.columns

\* the sum of the amounts of the rows of df whose date is in month m
RECURSIVE MonthSum(_, _)
MonthSum(rows, m) ==
    IF rows = <<>> THEN 0
    ELSE (IF MonthOf(Head(rows)[DATE_COLUMN].n) = m /\ Head(rows)[SALES_COLUMN].k = "num"
          THEN Head(rows)[SALES_COLUMN].n ELSE 0)
         + MonthSum(Tail(rows), m)

(* C6: monthlyTrend returns its pairs in strictly ascending month order, the *)
(* total of each month is the sum of the amounts of exactly the rows whose  *)
(* date is in that month, and every row is counted in exactly one month.    *)
C6_MonthlyTrend ==
    TrendDone =>
        /\ \A i \in 1..Len(sales_trend) - 1 : sales_trend[i].month < sales_trend[i + 1].month
        /\ \A i \in 1..Len(sales_trend) :
              sales_trend[i].total = MonthSum(df.rows, sales_trend[i].month)
        /\ \A j \in 1..Len(df.rows) :
              Cardinality({i \in 1..Len(sales_trend) :
                  sales_trend[i].month = MonthOf(df.rows[j][DATE_COLUMN].n)}) = 1

C6_Witness ==
    /\ TrendDone
    /\ Len(df.rows) = 2
    /\ df.rows[1][DATE_COLUMN] = Date(41852)
    /\ df.rows[2][DATE_COLUMN] = Date(41760)
    /\ sales_trend = <<[month |-> 2014 * 12 + 4, total |-> 200],
                       [month |-> 2014 * 12 + 5, total |-> 0],
                       [month |-> 2014 * 12 + 6, total |-> 0],
                       [month |-> 2014 * 12 + 7, total |-> 100]>>

\* the run of a readable file has ended
Finished == pc = "done" /\ file.readable

(* C7: without the amount column the run still renders the raw preview,      *)
(* computes no total/average/count metric, renders none of the three charts, *)
(* reports 'column not found' exactly once and does not end in the top-level *)
(* processing failure.                                                       *)
C7_MissingAmountColumn ==
    (Finished /\ SALES_COLUMN \notin file.columns) =>
        /\ Count(out, "preview") = 1
        /\ preview = head(file.rows)
        /\ Range(out) \cap Metrics = {}
        /\ total_sales = Unbound /\ avg_sales = UnboundMean /\ transactions = Unbound
        /\ Range(out) \cap Charts = {}
        /\ Count(out, "error_column") = 1
        /\ "error_processing" \notin Range(out)
        /\ exc = "none"

C7_Witness ==
    /\ Finished
    /\ file.columns = {DATE_COLUMN, CATEGORY_COLUMN}
    /\ Len(file.rows) = 2
    /\ out = <<"success", "preview", "info_date", "header", "error_column">>

\* the columns each output of the dashboard is computed from
Needs(o) ==
    IF o \in Metrics THEN {SALES_COLUMN}
    ELSE IF o = "chart_line" THEN {SALES_COLUMN, DATE_COLUMN}
    ELSE IF o \in {"chart_bar", "chart_pie"} THEN {SALES_COLUMN, CATEGORY_COLUMN}
    ELSE {}

Features == {"preview"} \cup Metrics \cup Charts

\* the condition the run reports for an absent column: the script has a message
\* for the amount column only
ReportsMissing(c) == c = SALES_COLUMN /\ "error_column" \in Range(out)

\* exactly the outputs that depend on an absent column are skipped, and the
\* run is not aborted
SkipsOnlyDependents ==
    /\ \A o \in Features : (o \in Range(out)) <=> (Needs(o) \subseteq file.columns)
    /\ "error_processing" \notin Range(out)
    /\ exc = "none"

EmptyDone ==
    /\ Finished
    /\ file.columns = ConfiguredColumns
    /\ df.rows = <<>>

ZeroAggregates ==
    /\ total_sales = Num(0)
    /\ avg_sales.k = "nan"
    /\ transactions = Num(0)

(* C9 as stated: on an empty dataset with the configured columns the total,  *)
(* the average and the count are zero/empty, no chart is produced and no     *)
(* error is reported.                                                        *)
C9_EmptyNoChart ==
    EmptyDone =>
        /\ ZeroAggregates
        /\ Range(out) \cap Charts = {}
        /\ Range(out) \cap {"error_column", "error_processing"} = {}

(* C9 amended: on an empty dataset with the configured columns the total and *)
(* the count are zero, the average is empty (NaN), the line, bar and pie     *)
(* charts are each rendered once from empty data, and no error is reported.  *)
C9_EmptyAggregates ==
    EmptyDone =>
        /\ ZeroAggregates
        /\ sales_trend = <<>> /\ category_sales = <<>>
        /\ \A c \in Charts : Count(out, c) = 1
        /\ Range(out) \cap {"error_column", "error_processing"} = {}
        /\ exc = "none"

C9_Witness ==
    /\ EmptyDone
    /\ Len(file.rows) = 2
    /\ file.rows[1][SALES_COLUMN] = Num(100)

(* C10: when reading the spreadsheet fails the run reports exactly one       *)
(* top-level error and nothing else, and no later step of the pipeline runs. *)
C10_ReadFailure ==
    ~file.readable =>
        /\ pc \in {"read_excel", "except", "done"}
        /\ pc # "read_excel" => exc = "read_excel"
        /\ out = (IF pc = "done" THEN <<"error_processing">> ELSE <<>>)
        /\ df = [columns |-> {}, rows |-> <<>>]
        /\ preview = <<>>
        /\ total_sales = Unbound /\ avg_sales = UnboundMean /\ transactions = Unbound
        /\ sales_trend = <<>> /\ category_sales = <<>>

C10_Witness ==
    /\ ~file.readable
    /\ pc = "done"
    /\ out = <<"error_processing">>

====
